---------------------------- MODULE Spec2Model ----------------------------
(***************************************************************************)
(* SmartRoute: a Flask server (server/main.py) answering shortest-route    *)
(* queries over a road network that server/graph_engine.py builds once per *)
(* place and keeps in the process-wide dictionary _GRAPH_CACHE.            *)
(*                                                                         *)
(* Conventions of the model                                                *)
(*   - a Python str that the code inspects character by character (the     *)
(*     maxspeed tag, a coordinate argument) is a sequence of one-character *)
(*     strings; a str that the code only compares (highway class, place,   *)
(*     algorithm) is a TLA+ string;                                        *)
(*   - a tag of an edge is Str(s), or a list: List(<<s1, ...>>) of          *)
(*     character strings, WordList(<<w1, ...>>) of words; an absent key of *)
(*     a dict is a key outside the DOMAIN of the record;                   *)
(*   - a float is an integer count of 10^-5 units (FloatScale), so that    *)
(*     the factor 1.60934 is exact; a travel time is an integer count of   *)
(*     milliseconds;                                                       *)
(*   - a node is its integer OSM id.                                       *)
(***************************************************************************)
EXTENDS Integers, Sequences, FiniteSets, TLC

VARIABLES
    cache,      \* _GRAPH_CACHE: place -> which graph object of the place it holds, 0 = no entry
    heap,       \* the graph objects: heap[place][n] is the n-th graph built for place
                \* (NoGraph: not built, or no longer referenced)
    builds,     \* per place, how many graphs ox.graph_from_place has built
    pc,         \* per worker thread, its position in the request handler
    req,        \* per worker thread, the request it is handling (or last handled)
    loc,        \* per worker thread, the handler's local variables
    resp,       \* per worker thread, the response it returned (NoResp while handling)
    call        \* the pending or finished call of a pure helper (NoCall when unused)

vars == <<cache, heap, builds, pc, req, loc, resp, call>>

(***************************************************************************)
(* Python values                                                           *)
(***************************************************************************)
FloatScale == 10 ^ 5

Str(s) == [t |-> "str", s |-> s, l |-> <<>>]
List(l) == [t |-> "list", s |-> <<>>, l |-> l]
WordList(l) == [t |-> "list", s |-> "", l |-> l]

\* Optional[float]
NoneF == [some |-> FALSE, val |-> 0]
Some(x) == [some |-> TRUE, val |-> x]

\* the result of a call that may raise
Ok(x) == [raised |-> FALSE, exc |-> "", msg |-> "", val |-> x]
Raise(e, msg) == [raised |-> TRUE, exc |-> e, msg |-> msg, val |-> 0]

Digits == {"0", "1", "2", "3", "4", "5", "6", "7", "8", "9"}
DigitVal(c) ==
    CASE c = "0" -> 0 [] c = "1" -> 1 [] c = "2" -> 2 [] c = "3" -> 3 [] c = "4" -> 4
      [] c = "5" -> 5 [] c = "6" -> 6 [] c = "7" -> 7 [] c = "8" -> 8 [] c = "9" -> 9

\* str.lower() on the characters the model uses
LowerChar(c) ==
    CASE c = "M" -> "m" [] c = "P" -> "p" [] c = "H" -> "h" [] c = "K" -> "k"
      [] OTHER -> c
Lower(s) == [i \in 1..Len(s) |-> LowerChar(s[i])]

\* str.strip(): leading and trailing blanks removed
RECURSIVE LStrip(_)
LStrip(s) == IF s # <<>> /\ Head(s) = " " THEN LStrip(Tail(s)) ELSE s
RECURSIVE RStrip(_)
RStrip(s) ==
    IF s # <<>> /\ s[Len(s)] = " " THEN RStrip(SubSeq(s, 1, Len(s) - 1)) ELSE s
Strip(s) == LStrip(RStrip(s))

\* positions at which the substring "mph" starts in s
MphAt(s) == {i \in 1..(Len(s) - 2) : s[i] = "m" /\ s[i + 1] = "p" /\ s[i + 2] = "h"}
\* s.split("mph")[0]
BeforeMph(s) ==
    LET i == CHOOSE j \in MphAt(s) : \A k \in MphAt(s) : j <= k
    IN SubSeq(s, 1, i - 1)

RECURSIVE NatOf(_)
NatOf(s) == IF s = <<>> THEN 0 ELSE NatOf(SubSeq(s, 1, Len(s) - 1)) * 10 + DigitVal(s[Len(s)])

\* the digits after the decimal point, as a count of 10^-5 (further digits dropped)
RECURSIVE FracOf(_, _)
FracOf(s, unit) ==
    IF s = <<>> \/ unit = 0 THEN 0
    ELSE DigitVal(Head(s)) * unit + FracOf(Tail(s), unit \div 10)

\* float(s) for the grammar  [blanks] [sign] digits [. digits] [blanks]  (and
\* ".5", "5."); anything else is ValueError.  Exponents, "inf", "nan" and "_"
\* are outside the alphabet of the model's strings.
PyFloat(str) ==
    LET s0 == Strip(str)
        signed == s0 # <<>> /\ Head(s0) \in {"+", "-"}
        s == IF signed THEN Tail(s0) ELSE s0
        dots == {i \in 1..Len(s) : s[i] = "."}
        ip == IF dots = {} THEN s ELSE SubSeq(s, 1, (CHOOSE i \in dots : TRUE) - 1)
        fp == IF dots = {} THEN <<>> ELSE SubSeq(s, (CHOOSE i \in dots : TRUE) + 1, Len(s))
        wellFormed ==
            /\ Cardinality(dots) <= 1
            /\ \A i \in 1..Len(s) : s[i] \in Digits \cup {"."}
            /\ Len(ip) + Len(fp) >= 1
        mag == NatOf(ip) * FloatScale + FracOf(fp, FloatScale \div 10)
    IN IF ~wellFormed THEN Raise("ValueError", "could not convert string to float")
       ELSE Ok(IF signed /\ Head(s0) = "-" THEN 0 - mag ELSE mag)

\* ''.join(ch for ch in s if (ch.isdigit() or ch == '.'))
DigitsAndDots(s) == SelectSeq(s, LAMBDA ch : ch \in Digits \cup {"."})

\* str(val) of a tag value: a str is itself, the empty list prints as "[]"
\* (a non-empty list is never printed: its first entry is taken before)
StrOf(val) ==
    IF val.t = "str" THEN val.s ELSE <<"[", "]">>

(***************************************************************************)
(* Edge Cost Model (graph_engine.py)                                       *)
(***************************************************************************)
MphFactor == 160934

\* num * 1.60934 (the product is formed in two parts to stay in range; the
\* fraction of num counts to 10^-3)
MphToKmh(num) ==
    LET m == IF num < 0 THEN 0 - num ELSE num
        kmh == (m \div FloatScale) * MphFactor
               + (((m % FloatScale) \div 100) * MphFactor) \div 1000
    IN IF num < 0 THEN 0 - kmh ELSE kmh

\* the mph branch: float(...) * 1.60934, or the exception of float
MphResult(num) == IF num.raised THEN num ELSE Ok(MphToKmh(num.val))

\* lines 48-51 on s = str(val).lower().strip()
ParseStr(s) ==
    IF MphAt(s) # {} THEN MphResult(PyFloat(Strip(BeforeMph(s))))
    ELSE PyFloat(DigitsAndDots(s))

\* the body of the try block of _parse_maxspeed_kmh (lines 47-51)
ParseBody(val) == ParseStr(Strip(Lower(StrOf(val))))

\* lines 44-45: the first entry of a non-empty list
FirstOfList(val) == IF val.t = "list" /\ val.l # <<>> THEN Str(val.l[1]) ELSE val

\* "except Exception: return None" around the try block
Caught(r) == IF r.raised THEN Ok(NoneF) ELSE Ok(Some(r.val))
Uncaught(r) == IF r.raised THEN r ELSE Ok(Some(r.val))

\* faulty variant: the try block without its except clause
ParseNoExcept(data) ==
    IF "maxspeed" \notin DOMAIN data THEN Ok(NoneF)
    ELSE Uncaught(ParseBody(FirstOfList(data.maxspeed)))

\* _parse_maxspeed_kmh(data.get("maxspeed")): Ok(Optional[float]), never raised
_parse_maxspeed_kmh(data) ==
    IF "maxspeed" \notin DOMAIN data THEN Ok(NoneF)
    ELSE Caught(ParseBody(FirstOfList(data.maxspeed)))

SpeedClasses ==
    {"motorway", "trunk", "primary", "secondary", "tertiary", "unclassified",
     "residential", "living_street", "service"}

DEFAULT_SPEEDS_KMH ==
    [c \in SpeedClasses |->
        FloatScale *
        (CASE c = "motorway" -> 100 [] c = "trunk" -> 80 [] c = "primary" -> 60
           [] c = "secondary" -> 50 [] c = "tertiary" -> 40 [] c = "unclassified" -> 35
           [] c = "residential" -> 30 [] c = "living_street" -> 15 [] c = "service" -> 20)]

FallbackSpeedKmh == 40

\* str(hw) of the highway tag after the first-of-list normalisation of
\* _edge_speed_kmh: absent -> "None", empty list -> "[]"
HighwayClassForSpeed(data) ==
    IF "highway" \notin DOMAIN data THEN "None"
    ELSE LET hw == data.highway
         IN IF hw.t = "list" THEN (IF hw.l # <<>> THEN hw.l[1] ELSE "[]") ELSE hw.s

\* DEFAULT_SPEEDS_KMH.get(c, 40.0)
ClassSpeed(c) ==
    IF c \in SpeedClasses THEN DEFAULT_SPEEDS_KMH[c] ELSE FallbackSpeedKmh * FloatScale

DefaultSpeed(data) == ClassSpeed(HighwayClassForSpeed(data))

\* lines 58-64 given ms, the parsed maxspeed: "if ms: return ms", else the default
SpeedFrom(data, ms) ==
    IF ms.raised THEN ms
    ELSE IF ms.val.some /\ ms.val.val # 0 THEN Ok(ms.val.val)
    ELSE Ok(DefaultSpeed(data))

\* _edge_speed_kmh(data): Ok(speed) or the exception of the parse
_edge_speed_kmh(data) == SpeedFrom(data, _parse_maxspeed_kmh(data))

\* length_m / speed_mps in milliseconds, speed_mps = speed_kmh * 1000 / 3600
\* (the speed is taken to 0.01 km/h so that the product stays in range)
TravelTimeMs(length_m, speed) == (length_m * 360000) \div (speed \div 1000)

\* lines 71-73 given the speed: data with travel_time set
TimedData(data, length_m, speed) ==
    [k \in DOMAIN data \cup {"travel_time"} |->
        IF k # "travel_time" THEN data[k]
        ELSE IF speed > 0 THEN TravelTimeMs(length_m, speed) ELSE 0]

EdgeTimeFrom(data, sp) ==
    IF sp.raised THEN sp
    ELSE Ok(TimedData(data, IF "length" \in DOMAIN data THEN data.length ELSE 0, sp.val))

\* the body of the loop of _apply_edge_time for one edge: Ok(data') or raised
EdgeTime(data) == EdgeTimeFrom(data, _edge_speed_kmh(data))

\* the loop over the edges, given what its body does to each edge
AllTimed(G, rs) ==
    IF \E x \in rs : x.r.raised
    THEN Raise("ValueError", "could not convert string to float")
    ELSE Ok([G EXCEPT !.edges = {[x.e EXCEPT !.data = x.r.val] : x \in rs}])

\* _apply_edge_time(G): every edge gets travel_time; Ok(G') or raised
_apply_edge_time(G) == AllTimed(G, {[e |-> e, r |-> EdgeTime(e.data)] : e \in G.edges})

(***************************************************************************)
(* Networks.  ox.graph_from_place is an external collaborator: what it     *)
(* returns for a place is a fixed source network (SourceNet).              *)
(***************************************************************************)
Pt(x, y) == [x |-> x * FloatScale, y |-> y * FloatScale]
Edge(u, v, k, data) == [u |-> u, v |-> v, k |-> k, data |-> data]

S30 == <<"3", "0">>
S40 == <<"4", "0">>
S50 == <<"5", "0">>
S65mph == <<"6", "5", " ", "m", "p", "h">>
Sunknown == <<"u", "n", "k", "n", "o", "w", "n">>

DefaultPlace == "Hoboken, New Jersey, USA"

\* the scenario of the specification: A(1) - B(2) residential 100 m,
\* B(2) - C(3) motorway 200 m, both streets two-way
NetX ==
    [place |-> "X",
     nodes |-> <<Pt(0, 0), Pt(0, 1), Pt(0, 2)>>,
     edges |->
        {Edge(1, 2, 0, [length |-> 100, highway |-> Str("residential")]),
         Edge(2, 1, 0, [length |-> 100, highway |-> Str("residential")]),
         Edge(2, 3, 0, [length |-> 200, highway |-> Str("motorway")]),
         Edge(3, 2, 0, [length |-> 200, highway |-> Str("motorway")])}]

\* a network with parallel edges, list-valued and malformed tags
NetHoboken ==
    [place |-> DefaultPlace,
     nodes |-> <<Pt(0, 0), Pt(0, 1), Pt(0, 2), Pt(1, 1)>>,
     edges |->
        {Edge(1, 2, 0, [length |-> 150, highway |-> Str("residential"),
                        maxspeed |-> List(<<S30, S40>>)]),
         Edge(1, 2, 1, [length |-> 100, highway |-> Str("motorway"),
                        maxspeed |-> Str(S65mph)]),
         Edge(2, 1, 0, [length |-> 150, highway |-> Str("residential")]),
         Edge(2, 3, 0, [length |-> 200,
                        highway |-> WordList(<<"motorway_link", "residential">>)]),
         Edge(2, 4, 0, [length |-> 150, highway |-> Str("service")]),
         Edge(4, 3, 0, [length |-> 150, maxspeed |-> Str(S50)]),
         Edge(1, 3, 0, [length |-> 250, highway |-> Str("living_street")]),
         Edge(3, 1, 0, [length |-> 300,
                        highway |-> WordList(<<"residential", "motorway">>),
                        maxspeed |-> Str(Sunknown)])}]

BuildablePlaces == {"X", DefaultPlace}
Places == BuildablePlaces \cup {"Nowhere"}
SourceNet(place) == IF place = "X" THEN NetX ELSE NetHoboken

NoGraph == [place |-> "", nodes |-> <<>>, edges |-> {}]

Nodes(G) == DOMAIN G.nodes

(***************************************************************************)
(* Route Filter and Route Query (graph_engine.py)                          *)
(***************************************************************************)
\* str(hw) after "if isinstance(hw, list): hw = hw[0]" (tags of the source
\* networks are never empty lists)
HighwayClassForFilter(data) ==
    IF "highway" \notin DOMAIN data THEN "None"
    ELSE IF data.highway.t = "list" THEN data.highway.l[1] ELSE data.highway.s

IsMotorway(e) == HighwayClassForFilter(e.data) \in {"motorway", "motorway_link"}

\* faulty variant: the filter drops nothing
FilterKeepsAll(G, avoid_highways) == G

\* _filtered_graph(G, avoid_highways): the value of the graph it returns
_filtered_graph(G, avoid_highways) ==
    IF ~avoid_highways THEN G
    ELSE [G EXCEPT !.edges = {e \in G.edges : ~IsMotorway(e)}]

\* ox.nearest_nodes(G, lon, lat): the node at least distance, the least id on a tie
CoordUnit == FloatScale \div 10
Dist2(n, lon, lat) ==
    ((n.x - lon) \div CoordUnit) * ((n.x - lon) \div CoordUnit)
    + ((n.y - lat) \div CoordUnit) * ((n.y - lat) \div CoordUnit)
_nearest_nodes_compat(G, lon, lat) ==
    CHOOSE n \in Nodes(G) :
        \A m \in Nodes(G) :
            \/ Dist2(G.nodes[n], lon, lat) < Dist2(G.nodes[m], lon, lat)
            \/ Dist2(G.nodes[n], lon, lat) = Dist2(G.nodes[m], lon, lat) /\ n <= m

MinOf(S) == CHOOSE x \in S : \A y \in S : x <= y
MaxOf(S) == CHOOSE x \in S : \A y \in S : x >= y

EdgesBetween(G, u, v) == {e \in G.edges : e.u = u /\ e.v = v}

\* networkx: the weight of an edge without the attribute is 1; of parallel
\* edges the lightest counts
EdgeWeight(e, weight) == IF weight \in DOMAIN e.data THEN e.data[weight] ELSE 1
StepWeight(H, u, v, weight) == MinOf({EdgeWeight(e, weight) : e \in EdgesBetween(H, u, v)})

RECURSIVE PathWeight(_, _, _)
PathWeight(H, p, weight) ==
    IF Len(p) < 2 THEN 0
    ELSE StepWeight(H, p[1], p[2], weight) + PathWeight(H, Tail(p), weight)

SimplePaths(H, s, t) ==
    {p \in UNION {[1..n -> Nodes(H)] : n \in 1..Cardinality(Nodes(H))} :
        /\ p[1] = s /\ p[Len(p)] = t
        /\ \A i, j \in 1..Len(p) : i # j => p[i] # p[j]
        /\ \A i \in 1..(Len(p) - 1) : EdgesBetween(H, p[i], p[i + 1]) # {}}

\* nx.shortest_path / nx.astar_path (no heuristic): a path of least total
\* weight, the same one for the same graph; NetworkXNoPath when there is none
ShortestPath(H, s, t, weight) ==
    LET ps == SimplePaths(H, s, t)
        best == {p \in ps : \A q \in ps : PathWeight(H, p, weight) <= PathWeight(H, q, weight)}
    IN IF ps = {} THEN Raise("NetworkXNoPath", "No path between origin and destination")
       ELSE Ok(CHOOSE p \in best : \A q \in best : Len(p) <= Len(q))

\* lines 109-110: the view with travel_time when the weight is travel_time
TimedView(H, weight) == IF weight = "travel_time" THEN _apply_edge_time(H) ELSE Ok(H)

\* faulty variant: the filter removes the edges from G itself instead of a copy
SearchInPlace(G, origin_node, destination_node, algorithm, weight, avoid_highways, timed) ==
    IF timed.raised THEN [G |-> G, res |-> timed]
    ELSE [G |-> timed.val,
          res |-> IF algorithm \in {"dijkstra", "astar"}
                  THEN ShortestPath(timed.val, origin_node, destination_node, weight)
                  ELSE Raise("ValueError", "Algorithm must be 'dijkstra' or 'astar'.")]

\* lines 112-117 on the view H (timed = Ok(H) or raised).  H is G itself unless
\* highways are avoided: then the travel_time annotation has landed on G
Search(G, origin_node, destination_node, algorithm, weight, avoid_highways, timed) ==
    IF timed.raised THEN [G |-> G, res |-> timed]
    ELSE [G |-> IF avoid_highways THEN G ELSE timed.val,
          res |-> IF algorithm \in {"dijkstra", "astar"}
                  THEN ShortestPath(timed.val, origin_node, destination_node, weight)
                  ELSE Raise("ValueError", "Algorithm must be 'dijkstra' or 'astar'.")]

WeightField(weight_mode) == IF weight_mode = "distance" THEN "length" ELSE "travel_time"

\* get_shortest_route: [G |-> the graph G as the call leaves it, res |-> Ok(nodes) or raised]
get_shortest_route(G, o_lat, o_lon, d_lat, d_lon, algorithm, weight_mode, avoid_highways) ==
    Search(G, _nearest_nodes_compat(G, o_lon, o_lat), _nearest_nodes_compat(G, d_lon, d_lat),
           algorithm, WeightField(weight_mode), avoid_highways,
           TimedView(_filtered_graph(G, avoid_highways), WeightField(weight_mode)))

(***************************************************************************)
(* Route Summarizer and Geometry Encoder                                   *)
(***************************************************************************)
\* the inner loop of route_length_meters / route_travel_time_seconds: the
\* values of attr on the parallel edges u -> v (edges without it skipped)
AttrValues(G, u, v, attr) ==
    {e.data[attr] : e \in {f \in EdgesBetween(G, u, v) : attr \in DOMAIN f.data}}

\* faulty variant: of parallel edges the heaviest counts
BestMax(G, u, v, attr) ==
    IF AttrValues(G, u, v, attr) = {} THEN 0 ELSE MaxOf(AttrValues(G, u, v, attr))

\* what one step adds to total: best, or nothing when there is no edge
\* (or none with the attribute)
Best(G, u, v, attr) ==
    IF AttrValues(G, u, v, attr) = {} THEN 0 ELSE MinOf(AttrValues(G, u, v, attr))

RECURSIVE RouteSum(_, _, _)
RouteSum(G, route_nodes, attr) ==
    IF Len(route_nodes) < 2 THEN 0
    ELSE Best(G, route_nodes[1], route_nodes[2], attr) + RouteSum(G, Tail(route_nodes), attr)

route_length_meters(G, route_nodes) == RouteSum(G, route_nodes, "length")
route_travel_time_seconds(G, route_nodes) == RouteSum(G, route_nodes, "travel_time")

\* route_nodes_to_coords: [lon, lat] per node, in route order
route_nodes_to_coords(G, route_nodes) ==
    [i \in 1..Len(route_nodes) |-> <<G.nodes[route_nodes[i]].x, G.nodes[route_nodes[i]].y>>]

(***************************************************************************)
(* Requests (main.py).  request.args maps each parameter to Present(raw)   *)
(* or to an absent value.                                                  *)
(***************************************************************************)
Threads == {"t1", "t2"}

Present(v) == [present |-> TRUE, v |-> v]
AbsentS == [present |-> FALSE, v |-> ""]
AbsentC == [present |-> FALSE, v |-> <<>>]

Sabc == <<"a", "b", "c">>
PlaceArgs == {AbsentS, Present("X"), Present("Nowhere")}
AlgoArgs == {AbsentS, Present("ASTAR"), Present("bogus")}
WeightArgs == {AbsentS, Present("Time")}
AvoidArgs == {AbsentS, Present("True")}
LatArgs ==
    {AbsentC, Present(Sabc), Present(<<"0">>), Present(<<"0", ".", "9">>),
     Present(<<"2", ".", "4">>)}
LonArgs == {AbsentC, Present(Sabc), Present(<<"0">>)}

RouteRequest(p, a, w, av, olat, olon, dlat, dlon) ==
    [endpoint |-> "/route-geojson", place |-> p, algo |-> a, weight |-> w,
     avoid_highways |-> av, origin_lat |-> olat, origin_lon |-> olon,
     dest_lat |-> dlat, dest_lon |-> dlon]

RouteRequests ==
    {RouteRequest(p, a, w, av, olat, olon, dlat, dlon) :
        p \in PlaceArgs, a \in AlgoArgs, w \in WeightArgs, av \in AvoidArgs,
        olat \in LatArgs, olon \in LonArgs, dlat \in LatArgs, dlon \in LonArgs}

\* under concurrency: requests for one place that differ in what they do to
\* its cached graph, and a request for a place that cannot be built
ConcRequests ==
    {RouteRequest(AbsentS, AbsentS, w, av, Present(<<"0">>), Present(<<"0">>),
                  Present(<<"2", ".", "4">>), Present(<<"0">>)) :
        w \in WeightArgs, av \in AvoidArgs}
    \cup {RouteRequest(Present("Nowhere"), AbsentS, AbsentS, AbsentS, Present(<<"0">>),
                       Present(<<"0">>), Present(<<"2", ".", "4">>), Present(<<"0">>))}

NoReq == [endpoint |-> ""]
HomeRequest == [endpoint |-> "/"]
TestRouteRequest == [endpoint |-> "/test-route"]

\* str.lower() on the words the model uses
LowerWord(w) ==
    CASE w = "ASTAR" -> "astar" [] w = "Time" -> "time" [] w = "True" -> "true"
      [] OTHER -> w

\* request.args.get(name, default)
ArgGet(r, name, default) == IF r[name].present THEN r[name].v ELSE default

CoordParams == <<"origin_lat", "origin_lon", "dest_lat", "dest_lon">>

\* lines 98-101: float(request.args[name]) for the four coordinates in turn;
\* Ok(<<o_lat, o_lon, d_lat, d_lon>>) or the first exception
RECURSIVE ParseCoords(_, _, _)
ParseCoords(r, i, acc) ==
    IF i > Len(CoordParams) THEN Ok(acc)
    ELSE LET name == CoordParams[i]
         IN IF ~r[name].present THEN Raise("KeyError", name)
            ELSE LET f == PyFloat(r[name].v)
                 IN IF f.raised THEN f ELSE ParseCoords(r, i + 1, Append(acc, f.val))

NoLoc ==
    [place |-> "", algo |-> "", weight_mode |-> "", avoid |-> FALSE,
     coords |-> <<>>, G |-> 0, nodes |-> <<>>]

\* the locals of route_geojson_api after lines 93-101
ParsedLocals(r, coords) ==
    [place |-> ArgGet(r, "place", DefaultPlace),
     algo |-> LowerWord(ArgGet(r, "algo", "dijkstra")),
     weight_mode |-> LowerWord(ArgGet(r, "weight", "distance")),
     avoid |-> LowerWord(ArgGet(r, "avoid_highways", "false")) \in {"1", "true", "yes"},
     coords |-> coords, G |-> 0, nodes |-> <<>>]

\* the locals of test_route (lines 69-78): origin (40.742, -74.032), dest (40.735, -74.027)
TestRouteLocals ==
    [place |-> DefaultPlace, algo |-> "dijkstra", weight_mode |-> "distance",
     avoid |-> FALSE, coords |-> <<4074200, 0 - 7403200, 4073500, 0 - 7402700>>,
     G |-> 0, nodes |-> <<>>]

(***************************************************************************)
(* Responses                                                               *)
(***************************************************************************)
NoResp == [status |-> 0]

\* the except clauses of route_geojson_api (lines 128-132)
ErrorResponse(e) ==
    IF e.exc = "KeyError"
    THEN [status |-> 400, error |-> "missing required query param", detail |-> e.msg]
    ELSE [status |-> 500, error |-> "internal error", detail |-> e.msg]

\* an exception out of test_route is not caught: the framework answers 500
UnhandledResponse(e) ==
    [status |-> 500, error |-> "Internal Server Error", detail |-> ""]

Failure(r, e) ==
    IF r.endpoint = "/route-geojson" THEN ErrorResponse(e) ELSE UnhandledResponse(e)

\* lines 111-126: the GeoJSON feature of a route
Feature(G, l, nodes) ==
    [status |-> 200,
     algorithm |-> l.algo, weight |-> l.weight_mode, avoid_highways |-> l.avoid,
     distance_m |-> route_length_meters(G, nodes),
     duration_s |-> IF l.weight_mode = "time" THEN route_travel_time_seconds(G, nodes) ELSE 0,
     nodes |-> Len(nodes),
     route |-> nodes,
     coordinates |-> route_nodes_to_coords(G, nodes)]

\* lines 81-86: the answer of test_route
TestRouteAnswer(G, nodes) ==
    [status |-> 200, algorithm |-> "dijkstra", total_nodes |-> Len(nodes),
     total_distance_m |-> route_length_meters(G, nodes), route_nodes |-> nodes]

Success(r, G, l, nodes) ==
    IF r.endpoint = "/route-geojson" THEN Feature(G, l, nodes) ELSE TestRouteAnswer(G, nodes)

(***************************************************************************)
(* The server: worker threads running the handlers                         *)
(***************************************************************************)
\* a worker builds a graph of a place only after it missed the cache, and no
\* worker misses once an entry is stored: at most one graph per worker and place
ObjIds == 1..Cardinality(Threads)

\* the graph object the local G of worker t refers to
GraphOf(t) == heap[loc[t].place][loc[t].G]

Finish(t, response) ==
    /\ pc' = [pc EXCEPT ![t] = "done"]
    /\ resp' = [resp EXCEPT ![t] = response]

\* home (lines 19-21)
Home(t) ==
    /\ req' = [req EXCEPT ![t] = HomeRequest]
    /\ Finish(t, [status |-> 200, message |-> "SmartRoute Flask server running"])
    /\ UNCHANGED <<cache, heap, builds, loc, call>>

\* test_route up to its call of load_graph (lines 69-72)
BeginTestRoute(t) ==
    /\ req' = [req EXCEPT ![t] = TestRouteRequest]
    /\ loc' = [loc EXCEPT ![t] = TestRouteLocals]
    /\ pc' = [pc EXCEPT ![t] = "load"]
    /\ UNCHANGED <<cache, heap, builds, resp, call>>

\* route_geojson_api up to its call of load_graph (lines 93-101), c the
\* outcome of reading the coordinates
BeginRouteWith(t, r, c) ==
    /\ req' = [req EXCEPT ![t] = r]
    /\ IF c.raised
       THEN Finish(t, ErrorResponse(c)) /\ UNCHANGED loc
       ELSE /\ loc' = [loc EXCEPT ![t] = ParsedLocals(r, c.val)]
            /\ pc' = [pc EXCEPT ![t] = "load"]
            /\ UNCHANGED resp
    /\ UNCHANGED <<cache, heap, builds, call>>

BeginRoute(t, r) == BeginRouteWith(t, r, ParseCoords(r, 1, <<>>))

\* a request arrives at an idle worker
Begin(t, requests) ==
    /\ pc[t] = "idle"
    /\ \/ Home(t)
       \/ BeginTestRoute(t)
       \/ \E r \in requests : BeginRoute(t, r)

\* ox.graph_from_place raises for a place it cannot resolve
GeocodeError == Raise("GeocodeError", "place not found")

\* load_graph, lines 27-28
LoadCheck(t) ==
    /\ pc[t] = "load"
    /\ IF cache[loc[t].place] # 0      \* "place in _GRAPH_CACHE"
       THEN /\ loc' = [loc EXCEPT ![t].G = cache[loc[t].place]]
            /\ pc' = [pc EXCEPT ![t] = "route"]
       ELSE /\ pc' = [pc EXCEPT ![t] = "build"]
            /\ UNCHANGED loc
    /\ UNCHANGED <<cache, heap, builds, req, resp, call>>

\* load_graph, lines 29-30: the network-construction primitive
Build(t) ==
    /\ pc[t] = "build"
    /\ IF loc[t].place \notin BuildablePlaces
       THEN /\ Finish(t, Failure(req[t], GeocodeError))
            /\ UNCHANGED <<heap, builds, loc>>
       ELSE LET id == builds[loc[t].place] + 1
            IN /\ heap' = [heap EXCEPT ![loc[t].place][id] = SourceNet(loc[t].place)]
               /\ builds' = [builds EXCEPT ![loc[t].place] = id]
               /\ loc' = [loc EXCEPT ![t].G = id]
               /\ pc' = [pc EXCEPT ![t] = "store"]
               /\ UNCHANGED resp
    /\ UNCHANGED <<cache, req, call>>

\* load_graph, line 31
Store(t) ==
    /\ pc[t] = "store"
    /\ cache' = [cache EXCEPT ![loc[t].place] = loc[t].G]
    /\ pc' = [pc EXCEPT ![t] = "route"]
    /\ UNCHANGED <<heap, builds, req, loc, resp, call>>

\* the call of get_shortest_route (lines 104-109, 74-79), out its outcome
RouteWith(t, out) ==
    /\ heap' = [heap EXCEPT ![loc[t].place][loc[t].G] = out.G]
    /\ IF out.res.raised
       THEN Finish(t, Failure(req[t], out.res)) /\ UNCHANGED loc
       ELSE /\ loc' = [loc EXCEPT ![t].nodes = out.res.val]
            /\ pc' = [pc EXCEPT ![t] = "summarize"]
            /\ UNCHANGED resp
    /\ UNCHANGED <<cache, builds, req, call>>

Route(t) ==
    /\ pc[t] = "route"
    /\ RouteWith(t, get_shortest_route(GraphOf(t), loc[t].coords[1], loc[t].coords[2],
                                       loc[t].coords[3], loc[t].coords[4], loc[t].algo,
                                       loc[t].weight_mode, loc[t].avoid))

\* the summary and the answer (lines 111-126, 81-86)
Respond(t) ==
    /\ pc[t] = "summarize"
    /\ Finish(t, Success(req[t], GraphOf(t), loc[t], loc[t].nodes))
    /\ UNCHANGED <<cache, heap, builds, req, loc, call>>

\* a graph object is live while the cache or a handler's local G refers to it
Referenced(place, id, t) ==
    \/ cache[place] = id
    \/ \E u \in Threads \ {t} : loc[u].place = place /\ loc[u].G = id

\* the answer leaves the worker, which is free again; its locals go, and with
\* them a graph that nothing else refers to
Deliver(t) ==
    /\ pc[t] = "done"
    /\ pc' = [pc EXCEPT ![t] = "idle"]
    /\ req' = [req EXCEPT ![t] = NoReq]
    /\ loc' = [loc EXCEPT ![t] = NoLoc]
    /\ resp' = [resp EXCEPT ![t] = NoResp]
    /\ heap' = IF loc[t].G # 0 /\ ~Referenced(loc[t].place, loc[t].G, t)
               THEN [heap EXCEPT ![loc[t].place][loc[t].G] = NoGraph] ELSE heap
    /\ UNCHANGED <<cache, builds, call>>

NoCall == [fn |-> "none"]

ServerInit ==
    /\ cache = [p \in Places |-> 0]
    /\ heap = [p \in BuildablePlaces |-> [i \in ObjIds |-> NoGraph]]
    /\ builds = [p \in Places |-> 0]
    /\ pc = [t \in Threads |-> "idle"]
    /\ req = [t \in Threads |-> NoReq]
    /\ loc = [t \in Threads |-> NoLoc]
    /\ resp = [t \in Threads |-> NoResp]

Init == ServerInit /\ call = NoCall

Step(t) ==
    \/ LoadCheck(t)
    \/ Build(t)
    \/ Store(t)
    \/ Route(t)
    \/ Respond(t)
    \/ Deliver(t)

\* requests handled one after the other
BeginNext == \E t \in Threads : (\A u \in Threads : pc[u] = "idle") /\ Begin(t, RouteRequests)
Next == BeginNext \/ \E t \in Threads : Step(t)
Spec == Init /\ [][Next]_vars

\* requests handled by concurrent worker threads
ConcBegin == \E t \in Threads : Begin(t, ConcRequests)
ConcNext == ConcBegin \/ \E t \in Threads : Step(t)
ConcSpec == Init /\ [][ConcNext]_vars

(***************************************************************************)
(* The pure helpers on their own: a call is drawn from HelperCalls and     *)
(* then made.                                                              *)
(***************************************************************************)
MaxRouteLen == 3

S30mph == <<"3", "0", " ", "m", "p", "h">>
S25MPH == <<"2", "5", "M", "P", "H", " ">>
Sdashes == <<"-", "-">>
Sneg5mph == <<"-", "5", " ", "m", "p", "h">>
Smph == <<"m", "p", "h">>
Sdotted == <<"1", ".", "2", ".", "3">>
Sblank40 == <<" ", "4", "0", " ">>

NoHighway == [present |-> FALSE, v |-> Str("")]
NoMaxspeed == [present |-> FALSE, v |-> Str(<<>>)]
MaxspeedTags ==
    {Str(S30), Str(S30mph), Str(S25MPH), Str(Sunknown), Str(<<>>), Str(Sdashes),
     Str(<<"0">>), Str(Sneg5mph), Str(Smph), Str(Sdotted), Str(Sblank40),
     List(<<>>), List(<<Sunknown, S30>>), List(<<S50, S30>>)}
HighwayTags ==
    {Str("motorway"), Str("residential"), Str("motorway_link"), Str("footway"),
     WordList(<<"primary", "service">>), WordList(<<>>)}
Lengths == {0, 100, 250}

\* the attribute dict of an edge with the given tags
EdgeData(len, hw, ms) ==
    [k \in {"length"} \cup (IF hw.present THEN {"highway"} ELSE {})
                      \cup (IF ms.present THEN {"maxspeed"} ELSE {}) |->
        CASE k = "length" -> len [] k = "highway" -> hw.v [] k = "maxspeed" -> ms.v]

EdgeDatas ==
    {EdgeData(len, hw, ms) :
        len \in Lengths,
        hw \in {NoHighway} \cup {Present(x) : x \in HighwayTags},
        ms \in {NoMaxspeed} \cup {Present(x) : x \in MaxspeedTags}}

\* a graph of the one edge 1 -> 2
OneEdge(data) ==
    [place |-> "", nodes |-> <<Pt(0, 0), Pt(0, 1)>>, edges |-> {Edge(1, 2, 0, data)}]

\* two parallel edges of length 10 and 15 (and a third node without edges)
NetParallel ==
    [place |-> "", nodes |-> <<Pt(0, 0), Pt(0, 1), Pt(0, 2)>>,
     edges |-> {Edge(1, 2, 0, [length |-> 10]), Edge(1, 2, 1, [length |-> 15]),
                Edge(2, 1, 0, [length |-> 15])}]

\* G as _apply_edge_time leaves it
ValOr(r, G) == IF r.raised THEN G ELSE r.val
Annotated(G) == ValOr(_apply_edge_time(G), G)

\* NetHoboken when a time query has avoided highways on a copy of which the
\* motorway edges were dropped: only the edges of the copy carry travel_time
PartlyTimed ==
    [NetHoboken EXCEPT !.edges =
        {e \in NetHoboken.edges : IsMotorway(e)}
        \cup Annotated(_filtered_graph(NetHoboken, TRUE)).edges]

SummaryGraphs ==
    {NetX, NetHoboken, Annotated(NetHoboken), Annotated(NetParallel), NetParallel, PartlyTimed}

RouteInputs == UNION {[1..n -> 1..4] : n \in 0..MaxRouteLen}

HelperCalls ==
    {[fn |-> "_apply_edge_time", data |-> d, done |-> FALSE] : d \in EdgeDatas}
    \cup {[fn |-> f, G |-> G, nodes |-> ns, done |-> FALSE] :
            f \in {"route_length_meters", "route_travel_time_seconds"},
            G \in SummaryGraphs, ns \in RouteInputs}

Return(out) ==
    /\ call' = [k \in DOMAIN call \cup {"out"} |->
                  IF k = "out" THEN out ELSE IF k = "done" THEN TRUE ELSE call[k]]
    /\ UNCHANGED <<cache, heap, builds, pc, req, loc, resp>>

CallEdgeTime ==
    /\ call.fn = "_apply_edge_time" /\ ~call.done
    /\ Return([speed |-> _edge_speed_kmh(call.data),
               G |-> _apply_edge_time(OneEdge(call.data))])

CallRouteLength ==
    /\ call.fn = "route_length_meters" /\ ~call.done
    /\ Return(route_length_meters(call.G, call.nodes))

CallRouteTime ==
    /\ call.fn = "route_travel_time_seconds" /\ ~call.done
    /\ Return(route_travel_time_seconds(call.G, call.nodes))

FnInit == ServerInit /\ call \in HelperCalls
FnNext == CallEdgeTime \/ CallRouteLength \/ CallRouteTime
FnSpec == FnInit /\ [][FnNext]_vars

(***************************************************************************)
(* route_geojson_api as a whole in a process whose cache is empty: what    *)
(* the first request of a process is answered                              *)
(***************************************************************************)
FreshRouted(l, out) ==
    IF out.res.raised THEN ErrorResponse(out.res) ELSE Feature(out.G, l, out.res.val)

FreshLoaded(l) ==
    IF l.place \notin BuildablePlaces THEN ErrorResponse(GeocodeError)
    ELSE FreshRouted(l, get_shortest_route(SourceNet(l.place), l.coords[1], l.coords[2],
                                           l.coords[3], l.coords[4], l.algo,
                                           l.weight_mode, l.avoid))

FreshParsed(r, c) ==
    IF c.raised THEN ErrorResponse(c) ELSE FreshLoaded(ParsedLocals(r, c.val))

FreshAnswer(r) == FreshParsed(r, ParseCoords(r, 1, <<>>))

\* the view H that get_shortest_route searched for worker t (lines 107-110)
SearchedView(t) ==
    TimedView(_filtered_graph(GraphOf(t), loc[t].avoid), WeightField(loc[t].weight_mode)).val

\* the nodes the coordinates of worker t resolve to (lines 103-104)
OriginNode(t) == _nearest_nodes_compat(GraphOf(t), loc[t].coords[2], loc[t].coords[1])
DestinationNode(t) == _nearest_nodes_compat(GraphOf(t), loc[t].coords[4], loc[t].coords[3])

(***************************************************************************)
(* Properties                                                              *)
(***************************************************************************)
\* worker t has answered a /route-geojson request and the answer is in resp[t]
Served(t) == pc[t] = "done" /\ req[t].endpoint = "/route-geojson"
Answered200(t) == Served(t) /\ resp[t].status = 200

\* the nodes that the edges E lead to from the nodes S
RECURSIVE Reach(_, _)
Reach(E, S) ==
    LET S2 == S \cup {e.v : e \in {f \in E : f.u \in S}}
    IN IF S2 = S THEN S ELSE Reach(E, S2)

NoPathDetail == "No path between origin and destination"

\* C1: however the load_graph calls of concurrent requests interleave, the
\* network of a place is constructed at most once, and all workers that hold a
\* graph of the same place hold the same graph object.
C1_BuiltOncePerPlace ==
    /\ \A p \in Places : builds[p] <= 1
    /\ \A t, u \in Threads :
          (/\ loc[t].G # 0 /\ loc[u].G # 0
           /\ loc[t].place = loc[u].place
           /\ pc[t] \in {"route", "summarize", "done"}
           /\ pc[u] \in {"route", "summarize", "done"}) => loc[t].G = loc[u].G

\* C2: the answer to a /route-geojson request does not depend on the requests
\* handled before it: it is the answer the same request gets as the first
\* request of the process.
C2_HistoryIndependent ==
    \A t \in Threads : Served(t) => resp[t] = FreshAnswer(req[t])

\* C3: a /route-geojson request that misses any of origin_lat, origin_lon,
\* dest_lat, dest_lon is answered 400 with an error naming a missing parameter;
\* every other failure (a coordinate that does not parse, an invalid
\* algorithm, no path) is answered 500 "internal error"; a failing request
\* gets an error body, never 200 and never a partial result.
C3_Missing(r) == {CoordParams[i] : i \in {j \in DOMAIN CoordParams : ~r[CoordParams[j]].present}}

C3_Unparsed(r) ==
    {CoordParams[i] : i \in {j \in DOMAIN CoordParams :
                                /\ r[CoordParams[j]].present
                                /\ PyFloat(r[CoordParams[j]].v).raised}}

C3_MissingIs400OtherIs500 ==
    \A t \in Threads :
        Served(t) =>
            /\ C3_Missing(req[t]) # {} =>
                  /\ resp[t].status = 400
                  /\ resp[t].error = "missing required query param"
                  /\ resp[t].detail \in C3_Missing(req[t])
            /\ (C3_Missing(req[t]) = {} /\ C3_Unparsed(req[t]) # {}) =>
                  resp[t].status = 500
            /\ (loc[t].G # 0 /\ loc[t].algo \notin {"dijkstra", "astar"}) =>
                  resp[t].status = 500
            /\ (resp[t].status # 200 /\ C3_Missing(req[t]) = {}) =>
                  /\ resp[t].status = 500
                  /\ resp[t].error = "internal error"
            /\ resp[t].status # 200 => DOMAIN resp[t] = {"status", "error", "detail"}

\* C4: a /route-geojson request in which a required coordinate is present but
\* is not a number is answered with status 400.
C4_NonNumericIs400 ==
    \A t \in Threads :
        (/\ Served(t)
         /\ \E i \in DOMAIN CoordParams :
               /\ req[t][CoordParams[i]].present
               /\ PyFloat(req[t][CoordParams[i]].v).raised) => resp[t].status = 400

\* C9: with weight=time, duration_s of a successful answer is the travel-time
\* cost of the returned route over the view that was searched, and it is not 0
\* when the route has an edge of positive length.
C9_DurationIsSearchCost ==
    \A t \in Threads :
        (Answered200(t) /\ loc[t].weight_mode = "time") =>
            /\ resp[t].duration_s = PathWeight(SearchedView(t), resp[t].route, "travel_time")
            /\ (PathWeight(SearchedView(t), resp[t].route, "length") > 0
                   => resp[t].duration_s # 0)

\* C10: distance_m of a successful answer is the length of the returned route
\* over the view that was searched: with avoid_highways=true no motorway or
\* motorway_link edge contributes to it.
C10_DistanceOverSearchedView ==
    \A t \in Threads :
        Answered200(t) =>
            resp[t].distance_m
                = PathWeight(_filtered_graph(GraphOf(t), loc[t].avoid), resp[t].route, "length")

\* C5: with avoid_highways=true every consecutive node pair of a returned
\* route is joined by an edge that is neither motorway nor motorway_link, and
\* a destination that cannot be reached without such edges gives the no-path
\* error; in the network A-B residential 100, B-C motorway 200 the distance
\* query from A to C returns [A, B, C] of length 300 without avoid_highways
\* and fails with no-path with it.
C5_Class(e) ==
    IF "highway" \notin DOMAIN e.data THEN ""
    ELSE IF e.data.highway.t = "list" THEN e.data.highway.l[1] ELSE e.data.highway.s

C5_NonMotorway(G) == {e \in G.edges : C5_Class(e) \notin {"motorway", "motorway_link"}}

C5_AvoidHighways ==
    \A t \in Threads :
        /\ (Answered200(t) /\ loc[t].avoid) =>
              \A i \in 1..(Len(resp[t].route) - 1) :
                  \E e \in C5_NonMotorway(GraphOf(t)) :
                      e.u = resp[t].route[i] /\ e.v = resp[t].route[i + 1]
        /\ (/\ Served(t) /\ loc[t].G # 0 /\ loc[t].avoid
            /\ loc[t].algo \in {"dijkstra", "astar"}
            /\ DestinationNode(t) \notin Reach(C5_NonMotorway(GraphOf(t)), {OriginNode(t)})) =>
              /\ resp[t].status = 500
              /\ resp[t].detail = NoPathDetail
        /\ (/\ Served(t) /\ loc[t].G # 0 /\ loc[t].place = "X"
            /\ loc[t].algo \in {"dijkstra", "astar"} /\ loc[t].weight_mode = "distance"
            /\ OriginNode(t) = 1 /\ DestinationNode(t) = 3) =>
              IF loc[t].avoid
              THEN resp[t].status = 500 /\ resp[t].detail = NoPathDetail
              ELSE /\ resp[t].status = 200
                   /\ resp[t].route = <<1, 2, 3>>
                   /\ resp[t].distance_m = 300

\* a route of three steps was returned with avoid_highways=true between nodes
\* that a motorway edge joins as well
C5_Witness ==
    \E t \in Threads :
        /\ Answered200(t) /\ loc[t].avoid
        /\ Len(resp[t].route) > 2
        /\ \E e \in GraphOf(t).edges :
              /\ e.u = resp[t].route[1] /\ e.v = resp[t].route[2]
              /\ C5_Class(e) = "motorway"

\* C6: in every sequence of requests, once the network of a place is cached
\* the cache entry is never cleared or replaced, the network is not built again
\* and its edge set stays that of the source network, so that after any
\* requests with avoid_highways=true a request without it still succeeds
\* whenever the source network, motorways included, connects its end points.
C6_Edges(G) ==
    {[u |-> e.u, v |-> e.v, k |-> e.k,
      data |-> [a \in DOMAIN e.data \ {"travel_time"} |-> e.data[a]]] : e \in G.edges}

C6_Cached(p) == heap[p][cache[p]]

C6_Inv ==
    /\ \A p \in BuildablePlaces :
          cache[p] # 0 => /\ builds[p] = 1
                          /\ C6_Edges(C6_Cached(p)) = C6_Edges(SourceNet(p))
    /\ \A t \in Threads :
          (/\ Served(t) /\ loc[t].G # 0 /\ ~loc[t].avoid
           /\ loc[t].algo \in {"dijkstra", "astar"}
           /\ DestinationNode(t) \in Reach(SourceNet(loc[t].place).edges, {OriginNode(t)})) =>
              resp[t].status = 200

C6_Step ==
    \A p \in BuildablePlaces :
        cache[p] # 0 =>
            /\ cache'[p] = cache[p]
            /\ builds'[p] = builds[p]
            /\ C6_Edges(heap'[p][cache[p]]) = C6_Edges(C6_Cached(p))

C7_Least(S) == CHOOSE x \in S : \A y \in S : x <= y

C7_Step(G, u, v, attr) ==
    LET vals == {e.data[attr] :
                    e \in {f \in G.edges : f.u = u /\ f.v = v /\ attr \in DOMAIN f.data}}
    IN IF vals = {} THEN 0 ELSE C7_Least(vals)

RECURSIVE C7_SumTo(_, _, _, _)
C7_SumTo(G, nodes, attr, i) ==
    IF i < 1 THEN 0
    ELSE C7_SumTo(G, nodes, attr, i - 1) + C7_Step(G, nodes[i], nodes[i + 1], attr)

C7_Attr(fn) == IF fn = "route_length_meters" THEN "length" ELSE "travel_time"

C7_SummarizerSum ==
    (call.fn \in {"route_length_meters", "route_travel_time_seconds"} /\ call.done) =>
        /\ call.out = C7_SumTo(call.G, call.nodes, C7_Attr(call.fn), Len(call.nodes) - 1)
        /\ Len(call.nodes) <= 1 => call.out = 0
        /\ (call.fn = "route_length_meters" /\ call.G = NetParallel) =>
              /\ call.nodes = <<1, 2>> => call.out = 10
              /\ call.nodes = <<1, 3>> => call.out = 0
              /\ call.nodes = <<1, 2, 1>> => call.out = 25

C7_Witness ==
    /\ call.fn = "route_length_meters" /\ call.done
    /\ call.G = NetParallel /\ call.nodes = <<1, 2>>
    /\ call.out = 10

\* C8: deriving the speed and travel time of an edge never raises; when the
\* maxspeed tag is absent or malformed the speed is the default of the edge's
\* highway class (the first entry of a list), 40 km/h when the class is
\* missing or not in the table, so it is positive; every travel_time written
\* for an edge of length >= 0 is >= 0.
C8_Malformed ==
    {Str(Sunknown), Str(<<>>), Str(Sdashes), Str(Smph), Str(Sdotted),
     List(<<>>), List(<<Sunknown, S30>>)}

C8_Table ==
    [motorway |-> 100, trunk |-> 80, primary |-> 60, secondary |-> 50, tertiary |-> 40,
     unclassified |-> 35, residential |-> 30, living_street |-> 15, service |-> 20]

C8_Class(data) ==
    IF "highway" \notin DOMAIN data THEN ""
    ELSE IF data.highway.t # "list" THEN data.highway.s
    ELSE IF data.highway.l = <<>> THEN "" ELSE data.highway.l[1]

C8_Default(data) ==
    IF C8_Class(data) \in DOMAIN C8_Table THEN C8_Table[C8_Class(data)] * FloatScale
    ELSE 40 * FloatScale

C8_FallbackNeverRaises ==
    (call.fn = "_apply_edge_time" /\ call.done) =>
        /\ ~call.out.speed.raised
        /\ ~call.out.G.raised
        /\ ("maxspeed" \notin DOMAIN call.data \/ call.data.maxspeed \in C8_Malformed) =>
              /\ call.out.speed.val = C8_Default(call.data)
              /\ call.out.speed.val > 0
        /\ \A e \in call.out.G.val.edges :
              /\ "travel_time" \in DOMAIN e.data
              /\ e.data.travel_time >= 0
        /\ call.data = EdgeData(100, Present(Str("residential")), Present(Str(Sunknown))) =>
              \A e \in call.out.G.val.edges : e.data.travel_time = 12000

C8_Witness ==
    /\ call.fn = "_apply_edge_time" /\ call.done
    /\ call.data = EdgeData(250, Present(WordList(<<"primary", "service">>)),
                            Present(Str(Sunknown)))
    /\ call.out.speed = Ok(60 * FloatScale)

=============================================================================
